---- MODULE Spec2Model ----
(***************************************************************************)
(* Calendar component of src/src/App.jsx: groupEventsByDate,               *)
(* detectConflicts, and the Calendar component's state with its handlers   *)
(* (search submission, day-cell click, month navigation, modal close).     *)
(*                                                                         *)
(* Strings the code inspects character by character (the search input, an  *)
(* event's date key and start time) are sequences of one-character         *)
(* strings.  A JavaScript number is a record [nan, v]; a Date is a record  *)
(* [valid, y, m, d] holding its local calendar day (m is 1..12).           *)
(***************************************************************************)
EXTENDS Integers, Sequences, FiniteSets, TLC

VARIABLES initialEvents, currentMonth, selectedDate, selectedEvents,
          searchDate, searchResult, callArgs, callResult

vars == <<initialEvents, currentMonth, selectedDate, selectedEvents,
          searchDate, searchResult, callArgs, callResult>>

(***************************************************************************)
(* Bounds of the model.                                                    *)
(***************************************************************************)
\* the written search inputs try months 0..MaxMonthTried, days 0..MaxDayTried
MaxMonthTried == 13
MaxDayTried == 32
\* the assembled search inputs have up to MaxParts separator-delimited parts
MaxParts == 4
\* event lists given to detectConflicts / groupEventsByDate have up to MaxEvents events
MaxEvents == 3
\* prevMonth / nextMonth are followed up to MaxNav months away from the base month
MaxNav == 1

(***************************************************************************)
(* Characters and JavaScript string helpers.                               *)
(***************************************************************************)
Digits == <<"0", "1", "2", "3", "4", "5", "6", "7", "8", "9">>

IsDigit(c) == \E i \in 1..10 : Digits[i] = c

DigitVal(c) == (CHOOSE i \in 1..10 : Digits[i] = c) - 1

\* String.prototype.includes for a one-character needle
Includes(s, c) == \E i \in 1..Len(s) : s[i] = c

RECURSIVE SplitFrom(_, _, _, _)
SplitFrom(s, sep, i, cur) ==
    IF i > Len(s) THEN <<cur>>
    ELSE IF s[i] = sep THEN <<cur>> \o SplitFrom(s, sep, i + 1, <<>>)
    ELSE SplitFrom(s, sep, i + 1, Append(cur, s[i]))

\* String.prototype.split for a one-character separator
Split(s, sep) == SplitFrom(s, sep, 1, <<>>)

\* the value a destructuring pattern binds to position i: undefined when the
\* array is shorter, and parseInt reads undefined as the string "undefined"
Undefined == <<"u", "n", "d", "e", "f", "i", "n", "e", "d">>

Destructure(parts, i) == IF i <= Len(parts) THEN parts[i] ELSE Undefined

NaN == [nan |-> TRUE, v |-> 0]

Num(n) == [nan |-> FALSE, v |-> n]

RECURSIVE SkipSpaces(_, _)
SkipSpaces(s, i) ==
    IF i <= Len(s) /\ s[i] = " " THEN SkipSpaces(s, i + 1) ELSE i

RECURSIVE DigitRun(_, _, _)
\* value of the longest run of digits of s starting at i, acc so far
DigitRun(s, i, acc) ==
    IF i <= Len(s) /\ IsDigit(s[i]) THEN DigitRun(s, i + 1, acc * 10 + DigitVal(s[i]))
    ELSE acc

\* parseInt(s, 10): leading blanks, an optional sign, then the longest digit
\* prefix; whatever follows the digits is ignored; no digit gives NaN
ParseInt(s) ==
    LET i == SkipSpaces(s, 1)
        signed == i <= Len(s) /\ s[i] \in {"-", "+"}
        j == IF signed THEN i + 1 ELSE i
    IN  IF j <= Len(s) /\ IsDigit(s[j])
        THEN Num((IF signed /\ s[i] = "-" THEN -1 ELSE 1) * DigitRun(s, j, 0))
        ELSE NaN

\* JavaScript's < and > on numbers: every comparison with NaN is false
Lt(a, n) == ~a.nan /\ a.v < n

Gt(a, n) == ~a.nan /\ a.v > n

(***************************************************************************)
(* Calendar arithmetic (Date and date-fns).                                *)
(***************************************************************************)
\* days since 1970-01-01 of the proleptic Gregorian day y-m-d
DaysFromCivil(y, m, d) ==
    LET yy == IF m <= 2 THEN y - 1 ELSE y
        era == yy \div 400
        yoe == yy - era * 400
        mp == IF m > 2 THEN m - 3 ELSE m + 9
        doy == (153 * mp + 2) \div 5 + d - 1
        doe == yoe * 365 + yoe \div 4 - yoe \div 100 + doy
    IN  era * 146097 + doe - 719468

MkDate(y, m, d) == [valid |-> TRUE, y |-> y, m |-> m, d |-> d]

InvalidDate == [valid |-> FALSE, y |-> 0, m |-> 0, d |-> 0]

CivilFromDays(n) ==
    LET z == n + 719468
        era == z \div 146097
        doe == z - era * 146097
        yoe == (doe - doe \div 1460 + doe \div 36524 - doe \div 146096) \div 365
        doy == doe - (365 * yoe + yoe \div 4 - yoe \div 100)
        mp == (5 * doy + 2) \div 153
        d == doy - (153 * mp + 2) \div 5 + 1
        m == IF mp < 10 THEN mp + 3 ELSE mp - 9
    IN  MkDate(IF m <= 2 THEN yoe + era * 400 + 1 ELSE yoe + era * 400, m, d)

DayNumber(date) == DaysFromCivil(date.y, date.m, date.d)

\* new Date(year, monthIndex, day) in local time: an Invalid Date when an
\* argument is NaN; otherwise day 1 of the month plus (day - 1) days, so a day
\* past the end of the month rolls into the following month
\* (a year 0..99 stands for 1900 + year)
NewDate(year, monthIndex, day) ==
    IF year.nan \/ monthIndex.nan \/ day.nan THEN InvalidDate
    ELSE LET full == IF year.v \in 0..99 THEN 1900 + year.v ELSE year.v
         IN  CivilFromDays(DaysFromCivil(full + monthIndex.v \div 12,
                                         (monthIndex.v % 12) + 1, 1) + day.v - 1)

\* Date.prototype.getMonth: 0..11, NaN for an Invalid Date
GetMonth(date) == IF date.valid THEN Num(date.m - 1) ELSE NaN

\* a - 1 on JavaScript numbers
MinusOne(a) == IF a.nan THEN NaN ELSE Num(a.v - 1)

\* a !== b on JavaScript numbers: NaN differs from everything, itself included
StrictNotEqual(a, b) == a.nan \/ b.nan \/ a.v # b.v

WeekdayNames == <<"Sunday", "Monday", "Tuesday", "Wednesday", "Thursday",
                  "Friday", "Saturday">>

MonthNames == <<"January", "February", "March", "April", "May", "June", "July",
                "August", "September", "October", "November", "December">>

\* 0 = Sunday .. 6 = Saturday; 1970-01-01 was a Thursday
DayOfWeek(date) == (DayNumber(date) + 4) % 7

RECURSIVE Numeral(_)
\* decimal digits of n >= 0
Numeral(n) == IF n < 10 THEN <<Digits[n + 1]>>
              ELSE Append(Numeral(n \div 10), Digits[(n % 10) + 1])

RECURSIVE PadLeft(_, _)
PadLeft(s, width) == IF Len(s) >= width THEN s ELSE PadLeft(<<"0">> \o s, width)

\* format(date, 'yyyy-MM-dd')
FormatISO(date) ==
    PadLeft(Numeral(date.y), 4) \o <<"-">> \o PadLeft(Numeral(date.m), 2)
        \o <<"-">> \o PadLeft(Numeral(date.d), 2)

\* format(date, 'EEEE, MMMM d, yyyy'), as its four fields
FormatLong(date) ==
    [kind |-> "label", weekday |-> WeekdayNames[DayOfWeek(date) + 1],
     month |-> MonthNames[date.m], day |-> date.d, year |-> date.y]

(***************************************************************************)
(* groupEventsByDate and the lookup  eventsByDate[key] || []               *)
(***************************************************************************)
EmptyMap == [k \in {} |-> <<>>]

RECURSIVE GroupFromPrepend(_, _, _)
\* groupEventsByDate putting each event at the front of its date's list
GroupFromPrepend(events, i, map) ==
    IF i > Len(events) THEN map
    ELSE LET e == events[i]
             dateKey == e.date
         IN  GroupFromPrepend(events, i + 1,
                 IF dateKey \notin DOMAIN map
                 THEN map @@ (dateKey :> <<e>>)
                 ELSE [map EXCEPT ![dateKey] = <<e>> \o @])

RECURSIVE GroupFrom(_, _, _)
\* the forEach of groupEventsByDate, from position i on
GroupFrom(events, i, map) ==
    IF i > Len(events) THEN map
    ELSE LET e == events[i]
             dateKey == e.date
         IN  GroupFrom(events, i + 1,
                 IF dateKey \notin DOMAIN map
                 THEN map @@ (dateKey :> <<e>>)
                 ELSE [map EXCEPT ![dateKey] = Append(@, e)])

groupEventsByDate(events) == GroupFrom(events, 1, EmptyMap)

Lookup(map, key) == IF key \in DOMAIN map THEN map[key] ELSE <<>>

(***************************************************************************)
(* detectConflicts                                                         *)
(***************************************************************************)
\* Number(s) for the digit strings of a well-formed HH:MM time
NumberOf(s) == DigitRun(s, 1, 0)

toMinutes(t) ==
    LET hm == Split(t, ":")
    IN  NumberOf(hm[1]) * 60 + NumberOf(hm[2])

Max(a, b) == IF a >= b THEN a ELSE b

Min(a, b) == IF a <= b THEN a ELSE b

WithConflict(e, flag) ==
    [id |-> e.id, date |-> e.date, startTime |-> e.startTime,
     durationMinutes |-> e.durationMinutes, conflict |-> flag]

\* the overlap counting the end minute as part of an event
OverlapTouching(a, b) ==
    LET aStart == toMinutes(a.startTime)
        aEnd == aStart + a.durationMinutes
        bStart == toMinutes(b.startTime)
        bEnd == bStart + b.durationMinutes
    IN  Max(0, Min(aEnd, bEnd) - Max(aStart, bStart) + 1)

Overlap(a, b) ==
    LET aStart == toMinutes(a.startTime)
        aEnd == aStart + a.durationMinutes
        bStart == toMinutes(b.startTime)
        bEnd == bStart + b.durationMinutes
    IN  Max(0, Min(aEnd, bEnd) - Max(aStart, bStart))

\* first index of the inner loop
InnerStart(i) == i + 1

RECURSIVE InnerLoop(_, _, _)
\* for (let j = ...; j < results.length; j++), positions counted from 1
InnerLoop(results, i, j) ==
    IF j > Len(results) THEN results
    ELSE InnerLoop(
             IF Overlap(results[i], results[j]) > 0
             THEN [results EXCEPT ![i].conflict = TRUE, ![j].conflict = TRUE]
             ELSE results,
             i, j + 1)

RECURSIVE OuterLoop(_, _)
OuterLoop(results, i) ==
    IF i > Len(results) THEN results
    ELSE OuterLoop(InnerLoop(results, i, InnerStart(i)), i + 1)

detectConflicts(eventsForDay) ==
    OuterLoop([k \in 1..Len(eventsForDay) |-> WithConflict(eventsForDay[k], FALSE)], 1)

(***************************************************************************)
(* handleSearch                                                            *)
(***************************************************************************)
Thrown(msg) == [thrown |-> TRUE, message |-> msg, date |-> InvalidDate]

Returned(date) == [thrown |-> FALSE, message |-> "", date |-> date]

\* the MM/DD/YYYY branch without the check of the re-derived month
SlashBranchNoRollCheck(s) ==
    LET parts == Split(s, "/")
        monthNum == ParseInt(Destructure(parts, 1))
        dayNum == ParseInt(Destructure(parts, 2))
        yearNum == ParseInt(Destructure(parts, 3))
        date == NewDate(yearNum, MinusOne(monthNum), dayNum)
    IN  IF Lt(monthNum, 1) \/ Gt(monthNum, 12) THEN Thrown("Invalid month")
        ELSE IF Lt(dayNum, 1) \/ Gt(dayNum, 31) THEN Thrown("Invalid day")
        ELSE IF Lt(yearNum, 1900) \/ Gt(yearNum, 9999) THEN Thrown("Invalid year")
        ELSE Returned(date)

\* the MM/DD/YYYY branch
SlashBranch(s) ==
    LET parts == Split(s, "/")
        monthNum == ParseInt(Destructure(parts, 1))
        dayNum == ParseInt(Destructure(parts, 2))
        yearNum == ParseInt(Destructure(parts, 3))
        date == NewDate(yearNum, MinusOne(monthNum), dayNum)
    IN  IF Lt(monthNum, 1) \/ Gt(monthNum, 12) THEN Thrown("Invalid month")
        ELSE IF Lt(dayNum, 1) \/ Gt(dayNum, 31) THEN Thrown("Invalid day")
        ELSE IF Lt(yearNum, 1900) \/ Gt(yearNum, 9999) THEN Thrown("Invalid year")
        ELSE IF StrictNotEqual(GetMonth(date), MinusOne(monthNum))
             THEN Thrown("Invalid date for the given month")
        ELSE Returned(date)

\* the YYYY-MM-DD branch checking the year before the month and the day
HyphenBranchYearFirst(s) ==
    LET parts == Split(s, "-")
        yearNum == ParseInt(Destructure(parts, 1))
        monthNum == ParseInt(Destructure(parts, 2))
        dayNum == ParseInt(Destructure(parts, 3))
        date == NewDate(yearNum, MinusOne(monthNum), dayNum)
    IN  IF Lt(yearNum, 1900) \/ Gt(yearNum, 9999) THEN Thrown("Invalid year")
        ELSE IF Lt(monthNum, 1) \/ Gt(monthNum, 12) THEN Thrown("Invalid month")
        ELSE IF Lt(dayNum, 1) \/ Gt(dayNum, 31) THEN Thrown("Invalid day")
        ELSE IF StrictNotEqual(GetMonth(date), MinusOne(monthNum))
             THEN Thrown("Invalid date for the given month")
        ELSE Returned(date)

\* the YYYY-MM-DD branch reading its components in the order of the other branch
HyphenBranchMonthFirst(s) ==
    LET parts == Split(s, "-")
        monthNum == ParseInt(Destructure(parts, 1))
        dayNum == ParseInt(Destructure(parts, 2))
        yearNum == ParseInt(Destructure(parts, 3))
        date == NewDate(yearNum, MinusOne(monthNum), dayNum)
    IN  IF Lt(monthNum, 1) \/ Gt(monthNum, 12) THEN Thrown("Invalid month")
        ELSE IF Lt(dayNum, 1) \/ Gt(dayNum, 31) THEN Thrown("Invalid day")
        ELSE IF Lt(yearNum, 1900) \/ Gt(yearNum, 9999) THEN Thrown("Invalid year")
        ELSE IF StrictNotEqual(GetMonth(date), MinusOne(monthNum))
             THEN Thrown("Invalid date for the given month")
        ELSE Returned(date)

\* the YYYY-MM-DD branch
HyphenBranch(s) ==
    LET parts == Split(s, "-")
        yearNum == ParseInt(Destructure(parts, 1))
        monthNum == ParseInt(Destructure(parts, 2))
        dayNum == ParseInt(Destructure(parts, 3))
        date == NewDate(yearNum, MinusOne(monthNum), dayNum)
    IN  IF Lt(monthNum, 1) \/ Gt(monthNum, 12) THEN Thrown("Invalid month")
        ELSE IF Lt(dayNum, 1) \/ Gt(dayNum, 31) THEN Thrown("Invalid day")
        ELSE IF Lt(yearNum, 1900) \/ Gt(yearNum, 9999) THEN Thrown("Invalid year")
        ELSE IF StrictNotEqual(GetMonth(date), MinusOne(monthNum))
             THEN Thrown("Invalid date for the given month")
        ELSE Returned(date)

\* the statements of the try block up to the isNaN check
TryBody(s) ==
    LET r == IF Includes(s, "/") THEN SlashBranch(s)
             ELSE IF Includes(s, "-") THEN HyphenBranch(s)
             ELSE Thrown("Invalid date format")
    IN  IF r.thrown THEN r
        ELSE IF ~r.date.valid THEN Thrown("Invalid date")
        ELSE r

\* error.message.startsWith('Invalid'), over the messages the try block throws
StartsWithInvalid(msg) ==
    msg \in {"Invalid month", "Invalid day", "Invalid year",
             "Invalid date for the given month", "Invalid date format",
             "Invalid date"}

Null == [kind |-> "null"]

Text(msg) == [kind |-> "text", text |-> msg]

eventsByDate == groupEventsByDate(initialEvents)

\* handleSearch closing the modal when the search fails
handleSearchClosesOnFailure ==
    LET r == TryBody(searchDate)
    IN  /\ IF ~r.thrown
           THEN /\ currentMonth' = r.date
                /\ selectedDate' = r.date
                /\ selectedEvents' = Lookup(eventsByDate, FormatISO(r.date))
                /\ searchResult' = FormatLong(r.date)
           ELSE /\ searchResult' =
                     IF StartsWithInvalid(r.message) THEN Text(r.message)
                     ELSE Text("Invalid date format. Please use MM/DD/YYYY or YYYY-MM-DD")
                /\ selectedDate' = Null
                /\ selectedEvents' = <<>>
                /\ UNCHANGED currentMonth
        /\ UNCHANGED <<initialEvents, searchDate, callArgs, callResult>>

handleSearch ==
    LET r == TryBody(searchDate)
    IN  /\ IF ~r.thrown
           THEN /\ currentMonth' = r.date
                /\ selectedDate' = r.date
                /\ selectedEvents' = Lookup(eventsByDate, FormatISO(r.date))
                /\ searchResult' = FormatLong(r.date)
           ELSE /\ searchResult' =
                     IF StartsWithInvalid(r.message) THEN Text(r.message)
                     ELSE Text("Invalid date format. Please use MM/DD/YYYY or YYYY-MM-DD")
                /\ UNCHANGED <<currentMonth, selectedDate, selectedEvents>>
        /\ UNCHANGED <<initialEvents, searchDate, callArgs, callResult>>

(***************************************************************************)
(* The month grid (date-fns) and the other handlers of Calendar            *)
(***************************************************************************)
DaysInMonth(y, m) ==
    DaysFromCivil(IF m = 12 THEN y + 1 ELSE y, IF m = 12 THEN 1 ELSE m + 1, 1)
        - DaysFromCivil(y, m, 1)

startOfMonth(date) == MkDate(date.y, date.m, 1)

endOfMonth(date) == MkDate(date.y, date.m, DaysInMonth(date.y, date.m))

addDays(date, n) == CivilFromDays(DayNumber(date) + n)

\* startOfWeek(date, { weekStartsOn: 1 })
startOfWeek(date) ==
    LET day == DayOfWeek(date)
    IN  addDays(date, -((IF day < 1 THEN 7 ELSE 0) + day - 1))

\* endOfWeek(date, { weekStartsOn: 1 })
endOfWeek(date) ==
    LET day == DayOfWeek(date)
    IN  addDays(date, (IF day < 1 THEN -7 ELSE 0) + 6 - (day - 1))

\* addMonths / subMonths: the same day of the target month, or its last day
\* when the target month is shorter
addMonths(date, n) ==
    LET idx == date.y * 12 + (date.m - 1) + n
        ty == idx \div 12
        tm == (idx % 12) + 1
    IN  MkDate(ty, tm, Min(date.d, DaysInMonth(ty, tm)))

subMonths(date, n) == addMonths(date, -n)

RECURSIVE Weeks(_, _)
\* while (day <= endDate) { seven days }
Weeks(day, endDate) ==
    IF DayNumber(day) <= DayNumber(endDate)
    THEN {addDays(day, i) : i \in 0..6} \cup Weeks(addDays(day, 7), endDate)
    ELSE {}

\* the days of the rendered cells
GridDays ==
    LET monthStart == startOfMonth(currentMonth)
        monthEnd == endOfMonth(monthStart)
    IN  Weeks(startOfWeek(monthStart), endOfWeek(monthEnd))

\* the month the navigation window of the model is centred on
BaseMonth == MkDate(2025, 6, 1)

MonthIndex(date) == date.y * 12 + date.m

InNavWindow(date) ==
    /\ MonthIndex(date) >= MonthIndex(BaseMonth) - MaxNav
    /\ MonthIndex(date) <= MonthIndex(BaseMonth) + MaxNav

prevMonth ==
    /\ InNavWindow(subMonths(currentMonth, 1))
    /\ currentMonth' = subMonths(currentMonth, 1)
    /\ UNCHANGED <<initialEvents, selectedDate, selectedEvents, searchDate,
                   searchResult, callArgs, callResult>>

nextMonth ==
    /\ InNavWindow(addMonths(currentMonth, 1))
    /\ currentMonth' = addMonths(currentMonth, 1)
    /\ UNCHANGED <<initialEvents, selectedDate, selectedEvents, searchDate,
                   searchResult, callArgs, callResult>>

\* onClick of the day cell of d, rendered with the memoized index
ClickDay(d, index) ==
    LET iso == FormatISO(d)
        dayEvents == Lookup(index, iso)
        eventsWithConflicts == detectConflicts(dayEvents)
    IN  /\ selectedDate' = d
        /\ selectedEvents' = eventsWithConflicts
        /\ UNCHANGED <<initialEvents, currentMonth, searchDate, searchResult,
                       callArgs, callResult>>

ClickCell ==
    LET index == eventsByDate
    IN  \E d \in GridDays : ClickDay(d, index)

\* the close button clearing the selected date only
CloseModalKeepsEvents ==
    /\ selectedDate # Null
    /\ selectedDate' = Null
    /\ UNCHANGED <<initialEvents, currentMonth, selectedEvents, searchDate,
                   searchResult, callArgs, callResult>>

\* onClick of the modal's close button, rendered while a date is selected
CloseModal ==
    /\ selectedDate # Null
    /\ selectedDate' = Null
    /\ selectedEvents' = <<>>
    /\ UNCHANGED <<initialEvents, currentMonth, searchDate, searchResult,
                   callArgs, callResult>>

\* onClick of the overlay: closes only when the overlay itself is the target
ClickOverlay ==
    \E onOverlay \in BOOLEAN :
        /\ selectedDate # Null
        /\ IF onOverlay
           THEN selectedDate' = Null /\ selectedEvents' = <<>>
           ELSE UNCHANGED <<selectedDate, selectedEvents>>
        /\ UNCHANGED <<initialEvents, currentMonth, searchDate, searchResult,
                       callArgs, callResult>>

(***************************************************************************)
(* Inputs                                                                  *)
(***************************************************************************)
\* the variables callArgs and callResult hold the argument and the returned
\* value of a function called on its own; callResult is empty before the call
NoResult == <<>>

Result(r) == <<r>>

Ev(id, date, startTime, durationMinutes) ==
    [id |-> id, date |-> date, startTime |-> startTime,
     durationMinutes |-> durationMinutes]

Time(h, m) == PadLeft(Numeral(h), 2) \o <<":">> \o PadLeft(Numeral(m), 2)

\* the written form of a date in the two formats, zero-padded or not
WriteSlash(y, m, d, pad) ==
    PadLeft(Numeral(m), IF pad THEN 2 ELSE 1) \o <<"/">>
        \o PadLeft(Numeral(d), IF pad THEN 2 ELSE 1) \o <<"/">>
        \o PadLeft(Numeral(y), IF pad THEN 4 ELSE 1)

WriteHyphen(y, m, d, pad) ==
    PadLeft(Numeral(y), IF pad THEN 4 ELSE 1) \o <<"-">>
        \o PadLeft(Numeral(m), IF pad THEN 2 ELSE 1) \o <<"-">>
        \o PadLeft(Numeral(d), IF pad THEN 2 ELSE 1)

June15 == FormatISO(MkDate(2025, 6, 15))

\* the event list the component is mounted with
EventLists ==
    { <<Ev(1, FormatISO(MkDate(2025, 5, 31)), Time(8, 0), 30),
        Ev(2, June15, Time(9, 0), 60),
        Ev(3, FormatISO(MkDate(2025, 7, 4)), Time(12, 0), 45),
        Ev(4, June15, Time(9, 30), 30),
        Ev(5, June15, Time(10, 30), 30)>> }

\* new Date() when the component mounts
Todays == {MkDate(2025, 5, 31)}

NotADate == <<"n", "o", "t", "-", "a", "-", "d", "a", "t", "e">>

\* what the user may have typed when the form is submitted
TypedInputs ==
    { WriteSlash(2025, 6, 15, TRUE), WriteHyphen(2025, 6, 15, TRUE),
      WriteSlash(2025, 2, 31, TRUE), NotADate }

\* onChange of the search input
SetSearchDate ==
    /\ \E s \in TypedInputs : searchDate' = s
    /\ UNCHANGED <<initialEvents, currentMonth, selectedDate, selectedEvents,
                   searchResult, callArgs, callResult>>

Init ==
    /\ initialEvents \in EventLists
    /\ currentMonth \in Todays
    /\ selectedDate = Null
    /\ selectedEvents = <<>>
    /\ searchDate = <<>>
    /\ searchResult = Null
    /\ callArgs = <<>>
    /\ callResult = NoResult

Next ==
    \/ SetSearchDate
    \/ handleSearch
    \/ prevMonth
    \/ nextMonth
    \/ ClickCell
    \/ CloseModal
    \/ ClickOverlay

Spec == Init /\ [][Next]_vars

(***************************************************************************)
(* handleSearch over a wide set of inputs: the state is the mounted        *)
(* component with some text typed in the search box, the step is submit.   *)
(***************************************************************************)
YearsTried == {1899, 1900, 2000, 2024, 2025, 9999, 10000}

WrittenInputs ==
    UNION { { WriteSlash(y, m, d, pad), WriteHyphen(y, m, d, pad) } :
              <<y, m, d, pad>> \in
                  YearsTried \X (0..MaxMonthTried) \X (0..MaxDayTried) \X BOOLEAN }

Tokens ==
    { <<"0", "6">>, <<"2", "0", "2", "5">>, <<"a", "b">>,
      <<"2", "0", "2", "5", "x">> }

RECURSIVE Assembled(_)
\* every way to put n tokens together with '/' and '-' between them
Assembled(n) ==
    IF n = 1 THEN Tokens
    ELSE { s \o <<sep>> \o t : s \in Assembled(n - 1), sep \in {"/", "-"}, t \in Tokens }

AssembledInputs == UNION { Assembled(n) : n \in 1..MaxParts }

ExampleInputs ==
    { NotADate,
      <<"0", "6", "/", "1", "5", "/", "2", "0", "2", "5", "a", "b", "c">>,
      <<"0", "6", "/", "1", "5", "/", "2", "0", "2", "5", "/", "7">>,
      <<"0", "6", "/", "1", "5">>,
      <<"1", "3", "/", "a", "b", "/", "2", "0", "2", "5">>,
      <<" ", "6", "/", "+", "1", "5", "/", "2", "0", "2", "5">>,
      <<"0", "6", "/", "1", "5", "-", "2", "0", "2", "5">>,
      <<"0", "6", "/", "/", "2", "0", "2", "5">>,
      <<"9", "9", "9", "-", "0", "6", "-", "1", "5">>,
      <<"t", "o", "d", "a", "y">> }

SearchInputs == WrittenInputs \cup AssembledInputs \cup ExampleInputs

InitParse ==
    /\ initialEvents \in EventLists
    /\ currentMonth \in Todays
    /\ selectedDate = Null
    /\ selectedEvents = <<>>
    /\ searchDate \in SearchInputs
    /\ searchResult = Null
    /\ callArgs = <<>>
    /\ callResult = NoResult

NextParse == handleSearch

SpecParse == InitParse /\ [][NextParse]_vars

(***************************************************************************)
(* detectConflicts and groupEventsByDate over bounded event lists          *)
(***************************************************************************)
StartsTried == {Time(9, 0), Time(9, 30), Time(10, 0), Time(23, 30)}

DurationsTried == {0, 30, 60}

DatesTried == {June15, FormatISO(MkDate(2025, 6, 16)), FormatISO(MkDate(2024, 2, 29))}

\* the lists of up to MaxEvents events whose fields are drawn from the given
\* sets; an event's id is its position
EventListsOver(dates, starts, durations) ==
    UNION { [1..n -> dates \X starts \X durations] : n \in 0..MaxEvents }

AsEvents(f) == [k \in 1..Len(f) |-> Ev(k, f[k][1], f[k][2], f[k][3])]

IdleComponent ==
    /\ initialEvents = <<>>
    /\ currentMonth \in Todays
    /\ selectedDate = Null
    /\ selectedEvents = <<>>
    /\ searchDate = <<>>
    /\ searchResult = Null

InitConflicts ==
    /\ IdleComponent
    /\ callArgs \in { AsEvents(f) : f \in EventListsOver({June15}, StartsTried, DurationsTried) }
    /\ callResult = NoResult

CallDetectConflicts ==
    /\ callResult = NoResult
    /\ callResult' = Result(detectConflicts(callArgs))
    /\ UNCHANGED <<initialEvents, currentMonth, selectedDate, selectedEvents,
                   searchDate, searchResult, callArgs>>

NextConflicts == CallDetectConflicts

SpecConflicts == InitConflicts /\ [][NextConflicts]_vars

InitIndex ==
    /\ IdleComponent
    /\ callArgs \in { AsEvents(f) : f \in EventListsOver(DatesTried, {Time(9, 0)}, {30, 60}) }
    /\ callResult = NoResult

CallGroupEventsByDate ==
    /\ callResult = NoResult
    /\ callResult' = Result(groupEventsByDate(callArgs))
    /\ UNCHANGED <<initialEvents, currentMonth, selectedDate, selectedEvents,
                   searchDate, searchResult, callArgs>>

NextIndex == CallGroupEventsByDate

SpecIndex == InitIndex /\ [][NextIndex]_vars

(***************************************************************************)
(* Properties of detectConflicts                                           *)
(***************************************************************************)
\* minutes since midnight of a start time HH:MM, read digit by digit
StartMinutes(e) ==
    600 * DigitVal(e.startTime[1]) + 60 * DigitVal(e.startTime[2])
        + 10 * DigitVal(e.startTime[4]) + DigitVal(e.startTime[5])

EndMinutes(e) == StartMinutes(e) + e.durationMinutes

\* max(0, min(end_a, end_b) - max(start_a, start_b)) > 0
PositiveOverlap(a, b) ==
    LET lateStart == IF StartMinutes(a) >= StartMinutes(b) THEN StartMinutes(a)
                     ELSE StartMinutes(b)
        earlyEnd == IF EndMinutes(a) <= EndMinutes(b) THEN EndMinutes(a)
                    ELSE EndMinutes(b)
        overlap == IF earlyEnd - lateStart > 0 THEN earlyEnd - lateStart ELSE 0
    IN  overlap > 0

\* C1: the event at position i of detectConflicts' result is the input event at
\* position i with conflict = TRUE exactly when another position j of the same
\* list overlaps it for a positive number of minutes; so a single event is never
\* flagged, an event whose only neighbours are back-to-back with it or have
\* zero duration is not flagged, and a zero-duration event is never flagged.
C1_ConflictIffPositiveOverlap ==
    callResult # NoResult =>
        LET r == callResult[1]
            n == Len(callArgs)
        IN  /\ Len(r) = n
            /\ \A i \in 1..n :
                /\ r[i] = WithConflict(callArgs[i], r[i].conflict)
                /\ r[i].conflict <=>
                       \E j \in (1..n) \ {i} : PositiveOverlap(callArgs[i], callArgs[j])
                /\ n = 1 => ~r[i].conflict
                /\ callArgs[i].durationMinutes = 0 => ~r[i].conflict
                /\ (\A j \in (1..n) \ {i} :
                        \/ callArgs[j].durationMinutes = 0
                        \/ EndMinutes(callArgs[j]) = StartMinutes(callArgs[i])
                        \/ EndMinutes(callArgs[i]) = StartMinutes(callArgs[j]))
                     => ~r[i].conflict

\* two overlapping events are flagged and a third one, starting at the minute
\* the others end, is not
C1_Witness ==
    /\ callResult # NoResult
    /\ Len(callArgs) = 3
    /\ callResult[1][1].conflict /\ callResult[1][2].conflict
    /\ ~callResult[1][3].conflict
    /\ callArgs[3].durationMinutes > 0
    /\ EndMinutes(callArgs[1]) = StartMinutes(callArgs[3])
    /\ EndMinutes(callArgs[2]) = StartMinutes(callArgs[3])

(***************************************************************************)
(* Properties of groupEventsByDate                                         *)
(***************************************************************************)
RECURSIVE EventsOfDate(_, _)
\* the subsequence of events whose date is key
EventsOfDate(events, key) ==
    IF events = <<>> THEN <<>>
    ELSE IF Head(events).date = key
         THEN <<Head(events)>> \o EventsOfDate(Tail(events), key)
         ELSE EventsOfDate(Tail(events), key)

\* C2: the index maps each date key to exactly the input events of that date in
\* their input order, its keys are the dates that occur in the input, no key
\* maps to an empty list, and the lookup of a date without events is empty.
C2_IndexIsPartitionInOrder ==
    callResult # NoResult =>
        LET index == callResult[1]
        IN  /\ DOMAIN index = { callArgs[i].date : i \in 1..Len(callArgs) }
            /\ \A k \in DOMAIN index : index[k] # <<>>
            /\ \A k \in DatesTried \cup DOMAIN index :
                   Lookup(index, k) = EventsOfDate(callArgs, k)
            /\ \A k \in DatesTried :
                   (\A i \in 1..Len(callArgs) : callArgs[i].date # k)
                       => Lookup(index, k) = <<>>

\* an index with two events of one date around an event of another date, and a
\* third date without events
C2_Witness ==
    /\ callResult # NoResult
    /\ Len(callArgs) = 3
    /\ callArgs[1].date = callArgs[3].date
    /\ callArgs[2].date # callArgs[1].date
    /\ callArgs[1].durationMinutes # callArgs[3].durationMinutes
    /\ Len(callResult[1][callArgs[1].date]) = 2
    /\ \E k \in DatesTried : k \notin DOMAIN callResult[1]

(***************************************************************************)
(* Properties of handleSearch as a function of the typed text              *)
(***************************************************************************)
Submitted == searchResult # Null

AllDigits(t) == Len(t) > 0 /\ \A i \in 1..Len(t) : IsDigit(t[i])

RECURSIVE DecimalValue(_)
DecimalValue(t) ==
    IF t = <<>> THEN 0
    ELSE 10 * DecimalValue(SubSeq(t, 1, Len(t) - 1)) + DigitVal(t[Len(t)])

RECURSIVE CountOf(_, _)
CountOf(s, c) ==
    IF s = <<>> THEN 0 ELSE (IF Head(s) = c THEN 1 ELSE 0) + CountOf(Tail(s), c)

\* the text has exactly two separators, both sep
TwoSeparators(s, sep, other) == CountOf(s, sep) = 2 /\ CountOf(s, other) = 0

\* digits/digits/digits
SlashShape(s) ==
    /\ TwoSeparators(s, "/", "-")
    /\ \A i \in 1..3 : AllDigits(Split(s, "/")[i])

\* digits-digits-digits
HyphenShape(s) ==
    /\ TwoSeparators(s, "-", "/")
    /\ \A i \in 1..3 : AllDigits(Split(s, "-")[i])

RecognizedShape(s) == SlashShape(s) \/ HyphenShape(s)

\* the year, month and day a text of a recognized shape writes
Written(s) ==
    IF SlashShape(s)
    THEN [y |-> DecimalValue(Split(s, "/")[3]), m |-> DecimalValue(Split(s, "/")[1]),
          d |-> DecimalValue(Split(s, "/")[2])]
    ELSE [y |-> DecimalValue(Split(s, "-")[1]), m |-> DecimalValue(Split(s, "-")[2]),
          d |-> DecimalValue(Split(s, "-")[3])]

LeapYear(y) == (y % 4 = 0 /\ y % 100 # 0) \/ y % 400 = 0

MonthLength(y, m) ==
    IF m \in {4, 6, 9, 11} THEN 30
    ELSE IF m = 2 THEN (IF LeapYear(y) THEN 29 ELSE 28)
    ELSE 31

InRanges(w) == w.m \in 1..12 /\ w.d \in 1..31 /\ w.y \in 1900..9999

\* C3: a submitted text of a recognized shape whose month, day and year are in
\* range fails with 'Invalid date for the given month' exactly when the day
\* exceeds the length of that month in that year, and otherwise succeeds with
\* the written year, month and day.
C3_DayForMonth ==
    (Submitted /\ RecognizedShape(searchDate) /\ InRanges(Written(searchDate))) =>
        LET w == Written(searchDate)
        IN  IF w.d > MonthLength(w.y, w.m)
            THEN /\ searchResult = Text("Invalid date for the given month")
                 /\ selectedDate = Null
            ELSE /\ searchResult.kind = "label"
                 /\ selectedDate = MkDate(w.y, w.m, w.d)
                 /\ currentMonth = MkDate(w.y, w.m, w.d)
                 /\ searchResult.year = w.y
                 /\ searchResult.month = MonthNames[w.m]
                 /\ searchResult.day = w.d

\* February 29 of 1900, which is not a leap year, is refused
C3_Witness ==
    /\ searchDate = WriteHyphen(1900, 2, 29, TRUE)
    /\ searchResult = Text("Invalid date for the given month")

\* C4: for a submitted text of a recognized shape the first violated range
\* check, in the order month, day, year, gives the reported reason, in both
\* branches.
C4_RangeCheckOrder ==
    (Submitted /\ RecognizedShape(searchDate)) =>
        LET w == Written(searchDate)
        IN  /\ w.m \notin 1..12 => searchResult = Text("Invalid month")
            /\ (w.m \in 1..12 /\ w.d \notin 1..31) => searchResult = Text("Invalid day")
            /\ (w.m \in 1..12 /\ w.d \in 1..31 /\ w.y \notin 1900..9999)
                   => searchResult = Text("Invalid year")
            /\ InRanges(w) =>
                   searchResult \notin {Text("Invalid month"), Text("Invalid day"),
                                        Text("Invalid year")}

\* a text in the year-first format violating all three ranges reports the month
C4_Witness ==
    /\ searchDate = WriteHyphen(1899, 13, 0, TRUE)
    /\ searchResult = Text("Invalid month")

\* a non-empty component that begins with a character no integer begins with
NotAnInteger(t) == Len(t) > 0 /\ ~IsDigit(t[1]) /\ t[1] \notin {" ", "+", "-"}

\* C5: a submitted text that '/' or '-' splits into three components, one of
\* which does not parse as an integer, is answered 'Invalid date format'.
C5_NonNumericIsInvalidFormat ==
    (/\ Submitted
     /\ \/ TwoSeparators(searchDate, "/", "-") /\ \E i \in 1..3 : NotAnInteger(Split(searchDate, "/")[i])
        \/ TwoSeparators(searchDate, "-", "/") /\ \E i \in 1..3 : NotAnInteger(Split(searchDate, "-")[i]))
        => searchResult = Text("Invalid date format")

\* C6: a submitted text whose shape is neither digits/digits/digits nor
\* digits-digits-digits is answered 'Invalid date format'.
C6_OtherShapesAreInvalidFormat ==
    (Submitted /\ ~RecognizedShape(searchDate))
        => searchResult = Text("Invalid date format")

\* the same year, month and day written in the other format
OtherWriting(s) ==
    IF SlashShape(s)
    THEN Split(s, "/")[3] \o <<"-">> \o Split(s, "/")[1] \o <<"-">> \o Split(s, "/")[2]
    ELSE Split(s, "-")[2] \o <<"/">> \o Split(s, "-")[3] \o <<"/">> \o Split(s, "-")[1]

\* C7: the outcome of a submitted text that writes a year, month and day in one
\* format is the outcome of the other format's text for the same three
\* numbers: the same date and long-form label, or the same failure message.
C7_FormatIndependence ==
    (Submitted /\ RecognizedShape(searchDate)) =>
        LET other == TryBody(OtherWriting(searchDate))
        IN  /\ RecognizedShape(OtherWriting(searchDate))
            /\ SlashShape(OtherWriting(searchDate)) = ~SlashShape(searchDate)
            /\ IF other.thrown
               THEN searchResult = Text(other.message) /\ selectedDate = Null
               ELSE /\ searchResult = FormatLong(other.date)
                    /\ selectedDate = other.date
                    /\ currentMonth = other.date

\* 06/15/2025 gives Sunday, June 15, 2025
C7_Witness ==
    /\ searchDate = WriteSlash(2025, 6, 15, TRUE)
    /\ searchResult = [kind |-> "label", weekday |-> "Sunday", month |-> "June",
                       day |-> 15, year |-> 2025]
    /\ selectedDate = MkDate(2025, 6, 15)

(***************************************************************************)
(* Properties of the component's state                                     *)
(***************************************************************************)
ErrorMessages ==
    {"Invalid month", "Invalid day", "Invalid year",
     "Invalid date for the given month", "Invalid date format", "Invalid date",
     "Invalid date format. Please use MM/DD/YYYY or YYYY-MM-DD"}

\* C8: a search submission ends either in success, with a long-form label as
\* the search result, or in failure, with an error message as the search result
\* and the displayed month, selected date and selected events left as they were.
C8_FailedSearchKeepsView ==
    [][handleSearch =>
          \/ /\ searchResult'.kind = "label"
             /\ selectedDate' # Null
          \/ /\ searchResult'.kind = "text"
             /\ searchResult'.text \in ErrorMessages
             /\ UNCHANGED <<currentMonth, selectedDate, selectedEvents>>]_vars

\* a failed search is on display while a date with events is selected and the
\* displayed month is not the one the component was mounted in
C8_Witness ==
    /\ searchResult = Text("Invalid date for the given month")
    /\ searchDate = WriteSlash(2025, 2, 31, TRUE)
    /\ selectedDate # Null
    /\ selectedEvents # <<>>
    /\ currentMonth \notin Todays

\* C9: whenever a date is selected, the selected events are detectConflicts of
\* that date's events, each carrying its conflict flag.
C9_SelectedEventsAreAnnotated ==
    selectedDate # Null =>
        selectedEvents = detectConflicts(Lookup(eventsByDate, FormatISO(selectedDate)))

\* an event without its conflict flag
Unflagged(e) ==
    [id |-> e.id, date |-> e.date, startTime |-> e.startTime,
     durationMinutes |-> e.durationMinutes]

SelectionMatchesIndex ==
    /\ selectedDate = Null => selectedEvents = <<>>
    /\ selectedDate # Null =>
           [k \in 1..Len(selectedEvents) |-> Unflagged(selectedEvents[k])]
               = Lookup(eventsByDate, FormatISO(selectedDate))

\* C10: with no date selected the selected events are empty; with a date
\* selected they are, the conflict flag aside, the indexed events of that
\* date's key in index order; month navigation changes neither the selected
\* date nor the selected events.
C10_SelectionMatchesIndex ==
    /\ []SelectionMatchesIndex
    /\ [][(prevMonth \/ nextMonth) => UNCHANGED <<selectedDate, selectedEvents>>]_vars

\* a date with events stays selected after navigating to a month whose grid
\* does not show it
C10_Witness ==
    /\ selectedDate # Null
    /\ selectedEvents # <<>>
    /\ selectedDate \notin GridDays

====
